---- MODULE Spec2Model ----
(***************************************************************************)
(* Model of the cleaning and monthly-aggregation core of air-health-jp:    *)
(* clean_data and aggregate_monthly of src/src/data/load_data.py, with the *)
(* pandas operations they call modelled by what they compute.              *)
(*                                                                         *)
(* A DataFrame is a record                                                 *)
(*   [columns : sequence of column names,                                  *)
(*    dtypes  : column name -> dtype,                                      *)
(*    index   : sequence of row labels,                                    *)
(*    data    : column name -> sequence of cells]                          *)
(* and a cell is a record [k, s, n, d]:                                    *)
(*   k = "NaN"  a missing value of a float64 or object column              *)
(*   k = "NaT"  a missing value of a datetime64 column                     *)
(*   k = "str"  the text s                                                 *)
(*   k = "num"  the number n/d (d > 0, lowest terms)                       *)
(*   k = "ts"   the timestamp of the day n = YYYYMMDD                      *)
(* Floating-point rounding is not modelled: numbers are exact rationals.   *)
(***************************************************************************)
EXTENDS Integers, Sequences, FiniteSets

VARIABLES
    pc,        \* position of the calling script
    date_key,  \* the date column named in the calls of clean_data
    input,     \* the record set as the caller loaded it, before any call
    df,        \* the caller's DataFrame object handed to clean_data
    status,    \* outcome of the last call: "ok" or the exception raised
    cleaned,   \* the object returned by clean_data(df, date_col)
    again,     \* the object returned by clean_data(cleaned, date_col)
    air_df,    \* aggregate_monthly's arguments
    hosp_df,
    jp_df,
    merged     \* the table aggregate_monthly returns

vars == <<pc, date_key, input, df, status, cleaned, again, air_df, hosp_df, jp_df, merged>>

-----------------------------------------------------------------------------
(* Bounds of the checked inputs. *)

\* Longest record set with arbitrary cells handed to clean_data.
MaxRows == 2

\* Longest record set whose dates parse and whose note is present.
MaxDenseRows == 3

\* Longest record set handed to aggregate_monthly, per source.
MaxAggRows == 2

-----------------------------------------------------------------------------
(* Cells. *)

NaN == [k |-> "NaN", s |-> "", n |-> 0, d |-> 1]

NaT == [k |-> "NaT", s |-> "", n |-> 0, d |-> 1]

Str(x) == [k |-> "str", s |-> x, n |-> 0, d |-> 1]

Ts(ymd) == [k |-> "ts", s |-> "", n |-> ymd, d |-> 1]

RECURSIVE GCD(_, _)
GCD(a, b) == IF b = 0 THEN a ELSE GCD(b, a % b)

Abs(a) == IF a < 0 THEN -a ELSE a

\* The number p/q (q > 0) in lowest terms.
Num(p, q) ==
    LET g == GCD(Abs(p), q)
    IN  [k |-> "num", s |-> "", n |-> p \div g, d |-> q \div g]

\* pandas.isna of one cell.
isna(c) == c.k \in {"NaN", "NaT"}

Range(s) == {s[i] : i \in 1..Len(s)}

-----------------------------------------------------------------------------
(* pd.to_datetime(df[date_col]), default errors='raise'. *)

\* The date strings of the checked inputs that the parser accepts, with the
\* day each denotes.
DateOf == [x \in {"2023-12-20", "2024-01-05", "2024-01-20", "2024-02-29",
                   "2024-03-10"} |->
              CASE x = "2023-12-20" -> 20231220
                [] x = "2024-01-05" -> 20240105
                [] x = "2024-01-20" -> 20240120
                [] x = "2024-02-29" -> 20240229
                [] OTHER -> 20240310]

\* Whether to_datetime converts the cell without raising: missing values and
\* timestamps always convert, a text only if it parses as a date.
Parses(c) == c.k \in {"NaN", "NaT", "ts"} \/ (c.k = "str" /\ c.s \in DOMAIN DateOf)

\* Variant: only texts are parsed; any other cell, a timestamp included, is
\* taken for missing.
to_datetime_cell_text_only(c) ==
    IF c.k = "str" THEN Ts(DateOf[c.s]) ELSE NaT

\* A missing value becomes NaT, a timestamp stays, a date text is parsed.
to_datetime_cell(c) ==
    IF isna(c) THEN NaT
    ELSE IF c.k = "ts" THEN c
    ELSE Ts(DateOf[c.s])

to_datetime(ser) == [i \in 1..Len(ser) |-> to_datetime_cell(ser[i])]

-----------------------------------------------------------------------------
(* Series.mean() (skipna) and Series.fillna(value). *)

RECURSIVE SumNum(_)
SumNum(ser) ==
    IF ser = <<>> THEN Num(0, 1)
    ELSE LET a == Head(ser)
             b == SumNum(Tail(ser))
         IN  Num(a.n * b.d + b.n * a.d, a.d * b.d)

NotNa(ser) == SelectSeq(ser, LAMBDA c : ~isna(c))

\* Variant: the sum of the non-missing cells, not divided by their number.
mean_undivided(ser) ==
    LET v == NotNa(ser)
    IN  IF v = <<>> THEN NaN ELSE SumNum(v)

\* The arithmetic mean of the non-missing cells; NaN when there is none.
mean(ser) ==
    LET v == NotNa(ser)
    IN  IF v = <<>> THEN NaN
        ELSE LET t == SumNum(v) IN Num(t.n, t.d * Len(v))

\* Missing cells are replaced by value; filling with NaN leaves them missing.
fillna(ser, value) == [i \in 1..Len(ser) |-> IF isna(ser[i]) THEN value ELSE ser[i]]

-----------------------------------------------------------------------------
(* DataFrame.select_dtypes and DataFrame.dropna(subset=...). *)

NumberDtypes == {"int64", "float64"}

\* df.select_dtypes(include="number").columns, in column order.
num_cols_of(frame) ==
    SelectSeq(frame.columns, LAMBDA c : frame.dtypes[c] \in NumberDtypes)

\* Variant: the date column is not dropped from the non-numeric columns.
obj_cols_with_date(frame, date_col) ==
    SelectSeq(frame.columns, LAMBDA c : frame.dtypes[c] \notin NumberDtypes)

\* df.select_dtypes(exclude="number").columns.drop(date_col, errors='ignore').
obj_cols_of(frame, date_col) ==
    SelectSeq(frame.columns,
              LAMBDA c : frame.dtypes[c] \notin NumberDtypes /\ c # date_col)

\* Positions of the rows with no missing value in any column of subset,
\* ascending.
RECURSIVE KeptFrom(_, _, _)
KeptFrom(frame, subset, i) ==
    IF i > Len(frame.index) THEN <<>>
    ELSE (IF \A j \in 1..Len(subset) : ~isna(frame.data[subset[j]][i])
          THEN <<i>> ELSE <<>>) \o KeptFrom(frame, subset, i + 1)

\* The rows at the positions pos, in that order, labels kept.
take(frame, pos) ==
    [frame EXCEPT
        !.index = [i \in 1..Len(pos) |-> frame.index[pos[i]]],
        !.data = [c \in DOMAIN frame.data |->
                     [i \in 1..Len(pos) |-> frame.data[c][pos[i]]]]]

dropna(frame, subset) == take(frame, KeptFrom(frame, subset, 1))

-----------------------------------------------------------------------------
(* clean_data(df, date_col). *)

\* df[date_col] = pd.to_datetime(df[date_col]): assigns into the caller's
\* frame; the column becomes datetime64[ns].
ConvertDate(frame, date_col) ==
    [frame EXCEPT !.data[date_col] = to_datetime(@),
                  !.dtypes[date_col] = "datetime64[ns]"]

\* One pass of the loop body: the mean is taken from the frame as it is when
\* the column's turn comes, and the filled column is assigned into the frame.
FillColumn(frame, col) ==
    [frame EXCEPT !.data[col] = fillna(@, mean(@))]

\* for col in num_cols: ...
RECURSIVE FillNumeric(_, _)
FillNumeric(frame, cols) ==
    IF cols = <<>> THEN frame
    ELSE FillNumeric(FillColumn(frame, Head(cols)), Tail(cols))

NoFrame == [columns |-> <<>>, dtypes |-> <<>>, index |-> <<>>, data |-> <<>>]

\* The whole call: the exception raised if any, the caller's frame as the call
\* leaves it (arg), and the returned frame (ret).
clean_data(frame, date_col) ==
    IF \E i \in 1..Len(frame.index) : ~Parses(frame.data[date_col][i])
    THEN [status |-> "ValueError", arg |-> frame, ret |-> NoFrame]
    ELSE LET dated == ConvertDate(frame, date_col)
             num_cols == num_cols_of(dated)
             obj_cols == obj_cols_of(dated, date_col)
             filled == FillNumeric(dated, num_cols)
         IN  [status |-> "ok", arg |-> filled, ret |-> dropna(filled, obj_cols)]

-----------------------------------------------------------------------------
(* The calling script around clean_data: load a file, clean it, and clean   *)
(* the result once more.                                                    *)

\* The fields of an air-quality file: the readings of the API with the
\* station id that fetch_and_store_air_quality adds to each.
AirColumns == <<"timestamp", "pm25", "no2", "station", "quality", "note">>

\* The fields of a hospitalization file.
HospColumns == <<"admission_date", "cid">>

\* Fields written as whole numbers.
IntegerFields == {"station"}

\* The dtype pd.read_csv infers for a column from its cells: object for a file
\* without rows, float64 for a column whose fields are all empty, object for a
\* column holding a text, and for numbers int64 if they are whole and none is
\* missing, float64 otherwise.
read_csv_dtype(col, ser) ==
    IF ser = <<>> THEN "object"
    ELSE IF \A i \in 1..Len(ser) : isna(ser[i]) THEN "float64"
    ELSE IF \E i \in 1..Len(ser) : ser[i].k = "str" THEN "object"
    ELSE IF col \in IntegerFields /\ \A i \in 1..Len(ser) : ~isna(ser[i])
         THEN "int64" ELSE "float64"

\* The frame read from a file of n rows with the columns cols and the cells
\* cells[c], labelled 0..n-1 (a RangeIndex).
Loaded(cols, n, cells) ==
    [columns |-> cols,
     dtypes |-> [c \in Range(cols) |-> read_csv_dtype(c, cells[c])],
     index |-> [i \in 1..n |-> i - 1],
     data |-> [c \in Range(cols) |-> cells[c]]]

Pm25Cells == {NaN, Num(10, 1), Num(20, 1)}

No2Cells == {NaN, Num(4, 1)}

QualityCells == {NaN, Str("A")}

AnyDates == {NaN, Str("2024-01-05"), Str("not-a-date")}

AnyNotes == {NaN, Str("x")}

\* An air-quality file of at most maxRows rows, read by load_air_quality.
LoadedAir(maxRows, dates, notes) ==
    \E n \in 0..maxRows :
        \E ts \in [1..n -> dates], pm \in [1..n -> Pm25Cells],
           no \in [1..n -> No2Cells], ql \in [1..n -> QualityCells],
           nt \in [1..n -> notes] :
            input = Loaded(AirColumns, n,
                        [c \in Range(AirColumns) |->
                            CASE c = "timestamp" -> ts
                              [] c = "pm25" -> pm
                              [] c = "no2" -> no
                              [] c = "station" -> [i \in 1..n |-> Num(101, 1)]
                              [] c = "quality" -> ql
                              [] OTHER -> nt])

\* A hospitalization file of at most maxRows rows, read by
\* load_hospitalizations or load_hospitalizations_jp.
LoadedHosp(maxRows) ==
    \E n \in 0..maxRows :
        \E ts \in [1..n -> AnyDates], cd \in [1..n -> {NaN, Str("J18")}] :
            input = Loaded(HospColumns, n,
                        [c \in Range(HospColumns) |->
                            IF c = "admission_date" THEN ts ELSE cd])

\* The loaded frame is any air-quality file of at most MaxRows rows (missing
\* and unparseable dates included), or one of at most MaxDenseRows rows whose
\* dates parse and whose notes are present, or any hospitalization file of at
\* most MaxRows rows.
InitClean ==
    /\ pc = "loaded"
    /\ \/ date_key = "timestamp" /\ LoadedAir(MaxRows, AnyDates, AnyNotes)
       \/ date_key = "timestamp"
              /\ LoadedAir(MaxDenseRows, {Str("2024-01-20")}, {Str("x")})
       \/ date_key = "admission_date" /\ LoadedHosp(MaxRows)
    /\ df = input
    /\ status = "ok"
    /\ cleaned = NoFrame
    /\ again = NoFrame
    /\ air_df = NoFrame
    /\ hosp_df = NoFrame
    /\ jp_df = NoFrame
    /\ merged = NoFrame

\* air_clean = clean_data(air, 'timestamp'), or one of the two calls
\* clean_data(hosp, 'admission_date'), clean_data(jp, 'admission_date').
Clean ==
    /\ pc = "loaded"
    /\ LET r == clean_data(df, date_key)
       IN  /\ df' = r.arg
           /\ status' = r.status
           /\ cleaned' = r.ret
           /\ pc' = IF r.status = "ok" THEN "cleaned" ELSE "failed"
    /\ UNCHANGED <<date_key, input, again, air_df, hosp_df, jp_df, merged>>

\* again = clean_data(cleaned, date_col): the first result is the argument,
\* so the call assigns into it.
CleanAgain ==
    /\ pc = "cleaned"
    /\ LET r == clean_data(cleaned, date_key)
       IN  /\ cleaned' = r.arg
           /\ status' = r.status
           /\ again' = r.ret
           /\ pc' = IF r.status = "ok" THEN "recleaned" ELSE "failed"
    /\ UNCHANGED <<date_key, input, df, air_df, hosp_df, jp_df, merged>>

NextClean == Clean \/ CleanAgain

SpecClean == InitClean /\ [][NextClean]_vars

-----------------------------------------------------------------------------
(* Calendar months: resample('M') labels each month by its last day. *)

YearOf(ts) == ts.n \div 10000

MonthOf(ts) == (ts.n \div 100) % 100

\* Months counted from year 0: the order and the distance of calendar months.
MonthIdx(ts) == YearOf(ts) * 12 + (MonthOf(ts) - 1)

IsLeap(y) == (y % 4 = 0 /\ y % 100 # 0) \/ y % 400 = 0

DaysInMonth(y, m) ==
    IF m = 2 THEN (IF IsLeap(y) THEN 29 ELSE 28)
    ELSE IF m \in {4, 6, 9, 11} THEN 30 ELSE 31

\* The month-end timestamp that labels month mi.
MonthEnd(mi) ==
    LET y == mi \div 12
        m == (mi % 12) + 1
    IN  Ts(y * 10000 + m * 100 + DaysInMonth(y, m))

-----------------------------------------------------------------------------
(* DataFrame.set_index, resample('M').mean() / .size(), add_prefix,        *)
(* to_frame, join(how='outer') and fillna(0).                               *)

Without(cols, col) == SelectSeq(cols, LAMBDA c : c # col)

\* The column col becomes the index and leaves the columns.
set_index(frame, col) ==
    LET rest == Without(frame.columns, col)
    IN  [columns |-> rest,
         dtypes |-> [c \in Range(rest) |-> frame.dtypes[c]],
         index |-> frame.data[col],
         data |-> [c \in Range(rest) |-> frame.data[c]]]

\* The months of the timestamps of a datetime index; a missing timestamp
\* (NaT) has none.
StampedMonths(index) ==
    {MonthIdx(index[i]) : i \in {j \in 1..Len(index) : ~isna(index[j])}}

\* Variant: only the months in which a row falls (a group-by, not a resample).
MonthBinsWithRows(index) ==
    LET ms == StampedMonths(index)
        below(m) == {a \in ms : a < m}
    IN  [i \in 1..Cardinality(ms) |->
            CHOOSE m \in ms : Cardinality(below(m)) = i - 1]

\* The monthly bins of a datetime index: every month from the month of the
\* earliest timestamp to the month of the latest one, whether or not a row
\* falls in it; rows without a timestamp are in no bin; no bin for an empty
\* index.
MonthBins(index) ==
    LET ms == StampedMonths(index)
    IN  IF ms = {} THEN <<>>
        ELSE LET lo == CHOOSE a \in ms : \A b \in ms : a <= b
                 hi == CHOOSE a \in ms : \A b \in ms : b <= a
             IN  [i \in 1..(hi - lo + 1) |-> lo + (i - 1)]

\* The index has rows and none has a timestamp: its earliest and latest labels
\* are NaT, which has no normalize(), and resample raises AttributeError while
\* it computes the edges of the bins.
NoTimestamp(index) ==
    index # <<>> /\ \A i \in 1..Len(index) : isna(index[i])

\* The cells of ser whose row falls in month mi, in row order.
RECURSIVE InMonth(_, _, _, _)
InMonth(index, ser, mi, i) ==
    IF i > Len(index) THEN <<>>
    ELSE (IF ~isna(index[i]) /\ MonthIdx(index[i]) = mi THEN <<ser[i]>> ELSE <<>>)
         \o InMonth(index, ser, mi, i + 1)

\* The majors of the installed pandas that accept resample('M').
PandasMajors == {1, 2}

\* Whether frame.resample('M').mean() raises TypeError: from pandas 2 the mean
\* of a column that is not numeric is an error, unless the frame has no row.
MeanRaises(major, frame) ==
    /\ major >= 2
    /\ frame.index # <<>>
    /\ \E c \in Range(frame.columns) : frame.dtypes[c] \notin NumberDtypes

\* frame.resample('M').mean(): per bin and numeric column the mean of the bin's
\* cells (NaN for a bin without rows); a frame without rows comes back as it
\* is; before pandas 2 the columns that are not numeric are left out.
resample_mean(frame) ==
    LET bins == MonthBins(frame.index)
        cols == IF frame.index = <<>> THEN frame.columns ELSE num_cols_of(frame)
    IN  [columns |-> cols,
         dtypes |-> [c \in Range(cols) |->
                        IF frame.index = <<>> THEN frame.dtypes[c] ELSE "float64"],
         index |-> [i \in 1..Len(bins) |-> MonthEnd(bins[i])],
         data |-> [c \in Range(cols) |->
                      [i \in 1..Len(bins) |->
                          mean(InMonth(frame.index, frame.data[c], bins[i], 1))]]]

\* frame.resample('M').size().to_frame(name): per bin the number of rows (0 for
\* a bin without rows), as the one column name.
resample_size(frame, name) ==
    LET bins == MonthBins(frame.index)
    IN  [columns |-> <<name>>,
         dtypes |-> [c \in {name} |-> "int64"],
         index |-> [i \in 1..Len(bins) |-> MonthEnd(bins[i])],
         data |-> [c \in {name} |->
                      [i \in 1..Len(bins) |->
                          Num(Len(InMonth(frame.index, frame.index, bins[i], 1)), 1)]]]

\* Variant: the columns keep their names.
add_prefix_skipped(frame, prefix) == frame

add_prefix(frame, prefix) ==
    LET old(c) == CHOOSE o \in Range(frame.columns) : prefix \o o = c
        new == [i \in 1..Len(frame.columns) |-> prefix \o frame.columns[i]]
    IN  [columns |-> new,
         dtypes |-> [c \in Range(new) |-> frame.dtypes[old(c)]],
         index |-> frame.index,
         data |-> [c \in Range(new) |-> frame.data[old(c)]]]

\* The labels of S in ascending order.
RECURSIVE Ascending(_)
Ascending(S) ==
    IF S = {} THEN <<>>
    ELSE LET lo == CHOOSE a \in S : \A b \in S : a.n <= b.n
         IN  <<lo>> \o Ascending(S \ {lo})

\* The cell of column c at label lab, NaN where the frame has no such label.
CellAt(frame, c, lab) ==
    IF \E i \in 1..Len(frame.index) : frame.index[i] = lab
    THEN frame.data[c][CHOOSE i \in 1..Len(frame.index) : frame.index[i] = lab]
    ELSE NaN

\* left.join(right, how='outer') of frames with unique labels: the union of
\* the two indexes, sorted; an int64 column that gains a missing cell becomes
\* float64, the other dtypes stay.
join_outer(left, right) ==
    LET idx == Ascending(Range(left.index) \cup Range(right.index))
        side(c) == IF c \in Range(left.columns) THEN left ELSE right
        col(c) == [i \in 1..Len(idx) |-> CellAt(side(c), c, idx[i])]
        cols == left.columns \o right.columns
    IN  [columns |-> cols,
         dtypes |-> [c \in Range(cols) |->
                        IF side(c).dtypes[c] = "int64"
                           /\ \E i \in 1..Len(idx) : isna(col(c)[i])
                        THEN "float64" ELSE side(c).dtypes[c]],
         index |-> idx,
         data |-> [c \in Range(cols) |-> col(c)]]

\* Variant: the joined table is returned as joined.
fillna_frame_skipped(frame, value) == frame

\* frame.fillna(0): every missing cell becomes 0; a filled object column that
\* then holds whole numbers only is int64.
fillna_frame(frame, value) ==
    LET filled(c) == fillna(frame.data[c], value)
    IN  [frame EXCEPT
            !.data = [c \in DOMAIN frame.data |-> filled(c)],
            !.dtypes = [c \in DOMAIN frame.dtypes |->
                           IF /\ frame.dtypes[c] = "object"
                              /\ filled(c) # <<>>
                              /\ \A i \in 1..Len(filled(c)) :
                                     filled(c)[i].k = "num" /\ filled(c)[i].d = 1
                           THEN "int64" ELSE frame.dtypes[c]]]

-----------------------------------------------------------------------------
(* aggregate_monthly(air_df, hosp_df, jp_df), under pandas major: the       *)
(* exception raised if any, and the returned table.                         *)

aggregate_monthly(major, air, hosp, jp) ==
    LET air_i == set_index(air, "timestamp")
        hosp_i == set_index(hosp, "admission_date")
        jp_i == set_index(jp, "admission_date")
    IN  IF NoTimestamp(air_i.index)
        THEN [status |-> "AttributeError", ret |-> NoFrame]
        ELSE IF MeanRaises(major, air_i) THEN [status |-> "TypeError", ret |-> NoFrame]
        ELSE IF NoTimestamp(hosp_i.index) \/ NoTimestamp(jp_i.index)
        THEN [status |-> "AttributeError", ret |-> NoFrame]
        ELSE LET air_m == add_prefix(resample_mean(air_i), "air_")
                 hosp_m == resample_size(hosp_i, "hospitalizations_total")
                 jp_m == resample_size(jp_i, "hospitalizations_jp")
             IN  [status |-> "ok",
                  ret |-> fillna_frame(join_outer(join_outer(air_m, hosp_m), jp_m),
                                       Num(0, 1))]

(* The calling script around aggregate_monthly: three files are loaded and  *)
(* cleaned, and the three cleaned frames are aggregated.                    *)

\* The fields of the air-quality files aggregated: the readings carry a text
\* field or they do not.
\* The fields of a reading that hold text.
TextFields == {"quality", "note"}

AggAirColumns == {<<"timestamp", "pm25", "station">>,
                  <<"timestamp", "pm25", "station", "note">>}

AggAirDates == {NaN, Str("2024-01-05"), Str("2024-03-10")}

AggHospDates == {NaN, Str("2023-12-20"), Str("2024-02-29")}

AggJpDates == {NaN, Str("2024-02-29")}

\* The readings of the air rows: 10 and 20 in turn.
Readings(n) == [i \in 1..n |-> IF i % 2 = 1 THEN Num(10, 1) ELSE Num(20, 1)]

\* The air-quality file of n rows with the dates ts.
AirFile(cols, n, ts) ==
    Loaded(cols, n,
           [c \in Range(cols) |->
               CASE c = "timestamp" -> ts
                 [] c = "pm25" -> Readings(n)
                 [] c = "station" -> [i \in 1..n |-> Num(101, 1)]
                 [] c \in TextFields -> [i \in 1..n |-> Str("x")]])

\* The hospitalization file of n rows with the dates ts.
HospFile(n, ts) ==
    Loaded(HospColumns, n,
           [c \in Range(HospColumns) |->
               IF c = "admission_date" THEN ts ELSE [i \in 1..n |-> Str("J18")]])

InitAgg ==
    /\ pc = "cleaned3"
    /\ \E cols \in AggAirColumns :
        \E na \in 0..MaxAggRows, nh \in 0..MaxAggRows, nj \in 0..MaxAggRows :
            \E ats \in [1..na -> AggAirDates],
               hts \in [1..nh -> AggHospDates], jts \in [1..nj -> AggJpDates] :
                /\ air_df = clean_data(AirFile(cols, na, ats), "timestamp").ret
                /\ hosp_df = clean_data(HospFile(nh, hts), "admission_date").ret
                /\ jp_df = clean_data(HospFile(nj, jts), "admission_date").ret
    /\ date_key = "timestamp"
    /\ input = NoFrame
    /\ df = NoFrame
    /\ status = "ok"
    /\ cleaned = NoFrame
    /\ again = NoFrame
    /\ merged = NoFrame

\* merged = aggregate_monthly(air_clean, hosp_clean, jp_clean)
Aggregate ==
    /\ pc = "cleaned3"
    /\ \E major \in PandasMajors :
        LET r == aggregate_monthly(major, air_df, hosp_df, jp_df)
        IN  /\ merged' = r.ret
            /\ status' = r.status
            /\ pc' = IF r.status = "ok" THEN "merged" ELSE "failed"
    /\ UNCHANGED <<date_key, input, df, cleaned, again, air_df, hosp_df, jp_df>>

NextAgg == Aggregate

SpecAgg == InitAgg /\ [][NextAgg]_vars

-----------------------------------------------------------------------------
(* Vocabulary of the properties. The loaded frame is labelled 0..n-1, so    *)
(* the row labelled l is at position l + 1 of input.                        *)

\* The columns of the loaded frame, other than the date column, that hold
\* numbers (a number dtype: a column without any value is one of them).
NumericColumns ==
    {c \in Range(input.columns) \ {date_key} : input.dtypes[c] \in {"int64", "float64"}}

\* The columns that are neither numeric nor the date column.
TextColumns == (Range(input.columns) \ {date_key}) \ NumericColumns

Air == date_key = "timestamp"

Called == pc # "loaded"

\* Positions of the non-missing cells of a column.
Known(ser) == {i \in 1..Len(ser) : ~isna(ser[i])}

RECURSIVE Total(_, _)
Total(ser, S) ==
    IF S = {} THEN 0
    ELSE LET i == CHOOSE j \in S : TRUE
         IN  ser[i].n + Total(ser, S \ {i})

\* v is the arithmetic mean of the non-missing cells of ser (whole numbers).
IsMeanOfKnown(v, ser) ==
    /\ v.k = "num"
    /\ v.n * Cardinality(Known(ser)) = v.d * Total(ser, Known(ser))

\* The input row labelled l has every text cell present.
TextComplete(l) == \A c \in TextColumns : ~isna(input.data[c][l + 1])

\* The result of the first call as it was returned: the second call is made
\* on it, so at "recleaned" the properties of the first call are read at
\* "cleaned".
FirstResult == pc = "cleaned"

(* C1: whenever clean returns, the result holds no missing value: every    *)
(* date cell is a timestamp, every numeric cell a number, every other cell *)
(* present.                                                                *)
C1_NoMissingInResult ==
    FirstResult =>
        \A i \in 1..Len(cleaned.index) :
            /\ cleaned.data[date_key][i].k = "ts"
            /\ \A c \in NumericColumns : cleaned.data[c][i].k = "num"
            /\ \A c \in TextColumns : ~isna(cleaned.data[c][i])

(* C2: if any row's date is missing or cannot be parsed, clean fails for   *)
(* the whole call and returns no result.                                   *)
C2_BadDateIsFatal ==
    (Called /\ \E i \in 1..Len(input.index) :
                  LET c == input.data[date_key][i]
                  IN  isna(c) \/ (c.k = "str" /\ c.s \notin DOMAIN DateOf))
        => (pc = "failed" /\ status # "ok" /\ cleaned = NoFrame)

(* C3: if some numeric column of a non-empty input has no non-missing      *)
(* value, clean fails and returns no result.                               *)
C3_EmptyColumnIsFatal ==
    (Called /\ Len(input.index) > 0
            /\ \E c \in NumericColumns : Known(input.data[c]) = {})
        => (pc = "failed" /\ status # "ok" /\ cleaned = NoFrame)

(* C4: for every numeric column with a non-missing input value, each       *)
(* returned cell that was missing in the input equals the arithmetic mean  *)
(* of the column's non-missing input cells, taken over all input rows, and *)
(* each cell that was not missing keeps its input value.                   *)
C4_ImputedWithInputMean ==
    FirstResult =>
        \A c \in NumericColumns :
            Known(input.data[c]) # {} =>
                \A j \in 1..Len(cleaned.index) :
                    LET was == input.data[c][cleaned.index[j] + 1]
                    IN  IF isna(was)
                        THEN IsMeanOfKnown(cleaned.data[c][j], input.data[c])
                        ELSE cleaned.data[c][j] = was

\* A cell imputed with the mean of two different readings, one of them in a
\* row that the call removed.
C4_Witness ==
    /\ FirstResult
    /\ Air
    /\ Len(cleaned.index) < Len(input.index)
    /\ \E j \in 1..Len(cleaned.index) :
        /\ isna(input.data["pm25"][cleaned.index[j] + 1])
        /\ cleaned.data["pm25"][j] = Num(15, 1)
        /\ \E i \in 1..Len(input.index) :
            /\ ~TextComplete(i - 1)
            /\ input.data["pm25"][i] = Num(20, 1)

(* C5: clean has no side effect: after any call, returned or failed, the   *)
(* caller's record set has the rows and cell values it had before.         *)
C5_InputUntouched == Called => df = input

(* C9: clean is idempotent: cleaning a returned result returns again, with *)
(* the same rows in the same order and the same cell values, and changes   *)
(* nothing in the result it was given.                                     *)
C9_Idempotent ==
    [][pc = "cleaned" =>
          (pc' = "recleaned" /\ status' = "ok" /\ again' = cleaned /\ cleaned' = cleaned)]_vars

\* A second cleaning of a result from which a row was removed and in which a
\* reading was imputed and the dates were parsed.
C9_Witness ==
    /\ pc = "recleaned"
    /\ Air
    /\ 0 < Len(again.index)
    /\ Len(again.index) < Len(input.index)
    /\ \E j \in 1..Len(again.index) :
        /\ isna(input.data["pm25"][again.index[j] + 1])
        /\ again.data["pm25"][j].k = "num"
    /\ \E j \in 1..Len(again.index) : again.data[date_key][j].k = "ts"

(* C10: the returned rows are exactly the input rows, in input order and   *)
(* each once, that have no missing value in a column that is neither       *)
(* numeric nor the date column; so no more rows than the input, and as     *)
(* many when no text value is missing.                                     *)
C10_RowsKept ==
    FirstResult =>
        /\ cleaned.index = SelectSeq(input.index, TextComplete)
        /\ \A j \in 1..Len(cleaned.index) : \A c \in TextColumns :
               cleaned.data[c][j] = input.data[c][cleaned.index[j] + 1]
        /\ Len(cleaned.index) <= Len(input.index)
        /\ (\A l \in Range(input.index) : TextComplete(l))
               => Len(cleaned.index) = Len(input.index)

\* A row missing both text cells is removed, and the row after it, whose date
\* is missing, is kept.
C10_Witness ==
    /\ FirstResult
    /\ Air
    /\ TextColumns = {"quality", "note"}
    /\ Len(input.index) = 2
    /\ \A c \in TextColumns : isna(input.data[c][1])
    /\ isna(input.data[date_key][2])
    /\ cleaned.index = <<1>>

-----------------------------------------------------------------------------
(* Properties of aggregate_monthly. *)

Aggregated == pc = "merged"

\* The calendar months in which a source has a row.
AirMonths == {MonthIdx(c) : c \in {x \in Range(air_df.data["timestamp"]) : ~isna(x)}}

HospMonths ==
    {MonthIdx(c) : c \in {x \in Range(hosp_df.data["admission_date"]) : ~isna(x)}}

JpMonths == {MonthIdx(c) : c \in {x \in Range(jp_df.data["admission_date"]) : ~isna(x)}}

\* The months from a source's first month to its last.
Span(ms) == UNION {a..b : a \in ms, b \in ms}

\* The table's rows are exactly the months ms, one row each, ascending.
RowsAre(ms) ==
    /\ Range(merged.index) = {MonthEnd(m) : m \in ms}
    /\ \A i \in 1..Len(merged.index) : \A j \in 1..Len(merged.index) :
           i < j => merged.index[i].n < merged.index[j].n

HospHeaders == <<"hospitalizations_total", "hospitalizations_jp">>

\* The columns of the table that come from the air source.
AirHeaders == Range(merged.columns) \ Range(HospHeaders)

(* C6, as stated: the table has exactly one row for each calendar month in *)
(* which at least one input has a row, and no other row, ascending.        *)
C6_RowsAreInputMonths ==
    Aggregated => RowsAre(AirMonths \cup HospMonths \cup JpMonths)

(* C6, amended: the table has exactly one row for each calendar month that *)
(* lies, for at least one input, between that input's earliest and latest  *)
(* month (both included), and no other row, ascending.                     *)
C6_RowsAreSpannedMonths ==
    Aggregated => RowsAre(Span(AirMonths) \cup Span(HospMonths) \cup Span(JpMonths))

\* A table with a row for a month in which no input has a row, next to rows
\* of another year.
C6_Witness ==
    /\ Aggregated
    /\ \E i \in 1..Len(merged.index) :
           MonthIdx(merged.index[i]) \notin AirMonths \cup HospMonths \cup JpMonths
    /\ merged.index = <<Ts(20231231), Ts(20240131), Ts(20240229)>>

(* C7: every cell of the returned table is populated, and in every row the *)
(* columns of a source with no input row in that month are exactly zero.   *)
C7_AbsentSourceIsZero ==
    Aggregated =>
        \A i \in 1..Len(merged.index) :
            LET m == MonthIdx(merged.index[i])
            IN  /\ \A c \in Range(merged.columns) : merged.data[c][i].k = "num"
                /\ m \notin AirMonths =>
                       \A c \in AirHeaders : merged.data[c][i] = Num(0, 1)
                /\ m \notin HospMonths =>
                       merged.data["hospitalizations_total"][i] = Num(0, 1)
                /\ m \notin JpMonths =>
                       merged.data["hospitalizations_jp"][i] = Num(0, 1)

\* Air data for January only and hospitalizations for February only: two rows,
\* January without hospitalizations, February without air readings.
C7_Witness ==
    /\ Aggregated
    /\ AirMonths = {MonthIdx(Ts(20240105))}
    /\ HospMonths = {MonthIdx(Ts(20240229))}
    /\ JpMonths = {}
    /\ merged.index = <<Ts(20240131), Ts(20240229)>>
    /\ merged.data["hospitalizations_total"] = <<Num(0, 1), Num(1, 1)>>
    /\ merged.data["air_pm25"] = <<Num(10, 1), Num(0, 1)>>
    /\ merged.data["air_station"] = <<Num(101, 1), Num(0, 1)>>

AllEmpty == Len(air_df.index) = 0 /\ Len(hosp_df.index) = 0 /\ Len(jp_df.index) = 0

\* The headers the table is to have: the numeric columns of the air source
\* (its columns other than the timestamp and the text fields), prefixed, then
\* the two hospitalization counts.
ExpectedHeaders ==
    LET numeric == SelectSeq(air_df.columns,
                             LAMBDA c : c # "timestamp" /\ c \notin TextFields)
    IN  [i \in 1..Len(numeric) |-> "air_" \o numeric[i]] \o HospHeaders

(* C8: with three empty inputs aggregate returns a table of zero rows with *)
(* the expected column headers (the prefixed numeric air columns and the   *)
(* two hospitalization counts), and raises nothing.                        *)
C8_EmptyInEmptyOut ==
    (pc # "cleaned3" /\ AllEmpty) =>
        /\ pc = "merged"
        /\ status = "ok"
        /\ merged.index = <<>>
        /\ merged.columns = ExpectedHeaders

====
